---- MODULE Spec2Model ----
(***************************************************************************)
(* A model of adocker/models/images.py: the ImageCollection operations     *)
(* (build, get, list, load, pull, push, remove, search, prune) run against *)
(* a daemon reached through client.api (the Gateway), and the accessors    *)
(* and history of an Image held by a caller (the variable image).          *)
(*                                                                         *)
(* Python strings are sequences of one-character strings.  Python values   *)
(* are tagged records: [t |-> "None"], [t |-> "str", s |-> ...],           *)
(* [t |-> "dict", d |-> ...], [t |-> "Image", ...], [t |-> "list", ...].   *)
(*                                                                         *)
(* images.py uses the names six and json_stream without importing them;    *)
(* the model reads them as in docker-py, from which the module is ported:  *)
(* six.string_types is the string type, json_stream(resp) yields the       *)
(* decoded records of resp one at a time.                                  *)
(***************************************************************************)
EXTENDS Integers, Sequences, FiniteSets, TLC

VARIABLES pc, op, resp, pos, last_event, image_id, acc, calls, outcome,
          daemon, nGet, nInspect, image

vars == <<pc, op, resp, pos, last_event, image_id, acc, calls, outcome,
          daemon, nGet, nInspect, image>>

\* Bounds of the model.
MaxRecords == 2
MaxList == 3
MaxGets == 2

----------------------------------------------------------------------------
\* Python values

PyNone == [t |-> "None"]
PyStr(s) == [t |-> "str", s |-> s]
PyDict(d) == [t |-> "dict", d |-> d]
PyList(l) == [t |-> "list", l |-> l]
EmptyDict == [k \in {} |-> ""]

\* Python truth value of an object: None, '' and {} are false.
Truthy(v) ==
    CASE v.t = "None" -> FALSE
      [] v.t = "str" -> v.s # <<>>
      [] v.t = "dict" -> DOMAIN v.d # {}
      [] v.t = "list" -> v.l # <<>>
      [] OTHER -> TRUE

\* x or y
PyOr(x, y) == IF Truthy(x) THEN x ELSE y

----------------------------------------------------------------------------
\* The identifier extraction of build:
\*   re.search(r'(^Successfully built |sha256:)([0-9a-f]+)$', chunk['stream'])

SuccessfullyBuilt ==
    <<"S","u","c","c","e","s","s","f","u","l","l","y"," ","b","u","i","l","t"," ">>
Sha256 == <<"s","h","a","2","5","6",":">>
HexChars == {"0","1","2","3","4","5","6","7","8","9","a","b","c","d","e","f"}

\* The literal p occurs in line at index i.
LiteralAt(line, i, p) ==
    /\ i + Len(p) - 1 <= Len(line)
    /\ \A k \in 1..Len(p) : line[i + k - 1] = p[k]

\* '$' (no MULTILINE) holds before index e: at the end of the string, or
\* just before a newline that is the last character of the string.
DollarAt(line, e) ==
    \/ e = Len(line) + 1
    \/ e = Len(line) /\ line[e] = "\n"

\* The ends e (exclusive) of the runs ([0-9a-f]+)$ that start at index j.
HexRunEnds(line, j) ==
    {e \in (j + 1)..(Len(line) + 1) :
        /\ \A k \in j..(e - 1) : line[k] \in HexChars
        /\ DollarAt(line, e)}

\* Index at which group 2 starts when the pattern matches from index i, or 0.
\* The first alternative carries '^' and so is tried at index 1 only; the
\* second alternative 'sha256:' is tried at every index.
GroupStart(line, i) ==
    IF i = 1 /\ LiteralAt(line, 1, SuccessfullyBuilt)
             /\ HexRunEnds(line, 1 + Len(SuccessfullyBuilt)) # {}
    THEN 1 + Len(SuccessfullyBuilt)
    ELSE IF LiteralAt(line, i, Sha256)
            /\ HexRunEnds(line, i + Len(Sha256)) # {}
    THEN i + Len(Sha256)
    ELSE 0

SetMin(S) == CHOOSE m \in S : \A n \in S : m <= n
SetMax(S) == CHOOSE m \in S : \A n \in S : n <= m

\* re.search: the leftmost index at which the pattern matches; the greedy
\* run is group 2.  None when no index matches.
re_search(line) ==
    LET starts == {i \in 1..Len(line) : GroupStart(line, i) # 0}
    IN  IF starts = {}
        THEN PyNone
        ELSE LET j == GroupStart(line, SetMin(starts))
                 e == SetMax(HexRunEnds(line, j))
             IN  [t |-> "Match", group2 |-> SubSeq(line, j, e - 1)]

----------------------------------------------------------------------------
\* The daemon behind the Gateway (client.api)

NoTag == <<"<","n","o","n","e",">",":","<","n","o","n","e",">">>
Unknown == <<"U","n","k","n","o","w","n">>

\* The images the daemon may hold.
ImgA == [Id |-> Sha256 \o <<"a">>, RepoTags |-> PyList(<<<<"n",":","t">>>>)]
ImgB == [Id |-> Sha256 \o <<"b">>, RepoTags |-> PyList(<<NoTag>>)]
DaemonImages == {ImgA, ImgB}

\* The daemon resolves a reference by full id, by bare hex id, by
\* repository:tag, or by repository (meaning repository:latest).
Resolves(img, name) ==
    \/ name = img.Id
    \/ Sha256 \o name = img.Id
    \/ \E k \in 1..Len(img.RepoTags.l) :
          \/ img.RepoTags.l[k] = name
          \/ img.RepoTags.l[k] = name \o <<":","l","a","t","e","s","t">>

Raise(exc, val) == [kind |-> "raise", exc |-> exc, val |-> val]
Return(val) == [kind |-> "return", exc |-> "", val |-> val]
Pending == [kind |-> "pending", exc |-> "", val |-> PyNone]

Call(api, args) == [api |-> api, args |-> args]

\* client.api.inspect_image(name): the snapshot, or ImageNotFound.
inspect_image(d, name) ==
    LET m == {img \in d : Resolves(img, name)}
    IN  IF m = {}
        THEN Raise("NotFound", PyStr(name))
        ELSE Return(PyDict(CHOOSE img \in m : TRUE))

\* Collection.prepare_model(attrs): wraps a snapshot as a Model.
prepare_model(attrs) == [t |-> "Image", id |-> attrs.d.Id, attrs |-> attrs.d]

----------------------------------------------------------------------------
\* ImageCollection

\* get that swallows the error of the Gateway and hands back nothing.
get_swallow(d, log, name) ==
    LET r == inspect_image(d, name)
        log2 == Append(log, Call("inspect_image", <<PyStr(name)>>))
    IN  IF r.kind = "raise"
        THEN [out |-> Return(PyNone), calls |-> log2]
        ELSE [out |-> Return(prepare_model(r.val)), calls |-> log2]

\* get that reuses an earlier fetch of the same name instead of fetching.
get_cached(d, log, name) ==
    LET r == inspect_image(d, name)
        c == Call("inspect_image", <<PyStr(name)>>)
        log2 == IF \E k \in 1..Len(log) : log[k] = c THEN log ELSE Append(log, c)
    IN  IF r.kind = "raise"
        THEN [out |-> r, calls |-> log2]
        ELSE [out |-> Return(prepare_model(r.val)), calls |-> log2]

\* get(name): one inspect_image call, wrapped by prepare_model; an error of
\* the call propagates.  log is the Gateway's record of the calls made.
get(d, log, name) ==
    LET r == inspect_image(d, name)
        log2 == Append(log, Call("inspect_image", <<PyStr(name)>>))
    IN  IF r.kind = "raise"
        THEN [out |-> r, calls |-> log2]
        ELSE [out |-> Return(prepare_model(r.val)), calls |-> log2]

\* String response handed back as it is, without a get.
build_string_raw(d, log, s) == [out |-> Return(PyStr(s)), calls |-> log]

\* build when the Gateway's response is a string: return self.get(resp)
build_string(d, log, s) == get(d, log, s)

\* Loop body that notes an error record but keeps reading.
build_chunk_noraise(chunk, le, id) ==
    LET match == IF "stream" \in DOMAIN chunk
                 THEN re_search(chunk["stream"])
                 ELSE PyNone
    IN  [out |-> Pending,
         last_event |-> PyDict(chunk),
         image_id |-> IF match.t = "Match" THEN PyStr(match.group2) ELSE id]

\* Loop body that keeps the first capture.
build_chunk_first(chunk, le, id) ==
    IF "error" \in DOMAIN chunk
    THEN [out |-> Raise("BuildError", PyStr(chunk["error"])),
          last_event |-> le, image_id |-> id]
    ELSE LET match == IF "stream" \in DOMAIN chunk
                      THEN re_search(chunk["stream"])
                      ELSE PyNone
         IN  [out |-> Pending,
              last_event |-> PyDict(chunk),
              image_id |-> IF match.t = "Match" /\ id = PyNone
                           THEN PyStr(match.group2) ELSE id]

\* Loop body that lets an error record pass once an identifier is captured.
build_chunk_skiperr(chunk, le, id) ==
    IF "error" \in DOMAIN chunk /\ id = PyNone
    THEN [out |-> Raise("BuildError", PyStr(chunk["error"])),
          last_event |-> le, image_id |-> id]
    ELSE LET match == IF "stream" \in DOMAIN chunk
                      THEN re_search(chunk["stream"])
                      ELSE PyNone
         IN  [out |-> Pending,
              last_event |-> PyDict(chunk),
              image_id |-> IF match.t = "Match" THEN PyStr(match.group2) ELSE id]

\* The body of the loop of build, applied to one record.
build_chunk(chunk, le, id) ==
    IF "error" \in DOMAIN chunk
    THEN [out |-> Raise("BuildError", PyStr(chunk["error"])),
          last_event |-> le, image_id |-> id]
    ELSE LET match == IF "stream" \in DOMAIN chunk
                      THEN re_search(chunk["stream"])
                      ELSE PyNone
         IN  [out |-> Pending,
              last_event |-> PyDict(chunk),
              image_id |-> IF match.t = "Match" THEN PyStr(match.group2) ELSE id]

\* End of build that reports a failed get as a BuildError.
build_finish_wrap(d, log, le, id) ==
    IF Truthy(id)
    THEN LET g == get(d, log, id.s)
         IN  IF g.out.kind = "raise"
             THEN [out |-> Raise("BuildError", g.out.val), calls |-> g.calls]
             ELSE g
    ELSE [out |-> Raise("BuildError", PyOr(le, PyStr(Unknown))), calls |-> log]

\* The end of build, after the loop.
build_finish(d, log, le, id) ==
    IF Truthy(id)
    THEN get(d, log, id.s)
    ELSE [out |-> Raise("BuildError", PyOr(le, PyStr(Unknown))), calls |-> log]

\* Listing walked from its end.
list_key_rev(listing, k) == listing[Len(listing) - k + 1].d.Id

\* The key of the get that follows entry k of a listing.
list_key(listing, k) == listing[k].d.Id

\* list that leaves out an entry whose get failed and goes on.
list_item_skip(g, models) ==
    IF g.out.kind = "raise"
    THEN [out |-> Pending, acc |-> models, over |-> FALSE]
    ELSE [out |-> Pending, acc |-> Append(models, g.out.val), over |-> FALSE]

\* What list does with the outcome g of the get of one entry: an error ends
\* list, a Model joins the Models collected so far.
list_item(g, models) ==
    IF g.out.kind = "raise"
    THEN [out |-> g.out, acc |-> models, over |-> TRUE]
    ELSE [out |-> Pending, acc |-> Append(models, g.out.val), over |-> FALSE]

\* load that reads the Gateway's sequence into a list.
load_materialized(data, ret) ==
    [out |-> Return(PyList(ret.l)), calls |-> <<Call("load_image", <<data>>)>>]

\* load(data): return self.client.api.load_image(data)
load(data, ret) ==
    [out |-> Return(ret), calls |-> <<Call("load_image", <<data>>)>>]

\* The forwarders: the Gateway call made for the arguments, and what the
\* method hands back of the Gateway's result ret.
push(repository, tag, ret) ==
    [out |-> Return(ret), calls |-> <<Call("push", <<repository, tag>>)>>]

remove(args, ret) ==
    [out |-> Return(PyNone), calls |-> <<Call("remove_image", args)>>]

search(args, ret) ==
    [out |-> Return(ret), calls |-> <<Call("search", args)>>]

prune(filters, ret) ==
    [out |-> Return(ret), calls |-> <<Call("prune_images", <<filters>>)>>]

\* Key that leaves the tag out.
pull_key_notag(name, tag) == name

\* The key pull resolves: '{0}:{1}'.format(name, tag) if tag else name
pull_key(name, tag) ==
    IF Truthy(tag) THEN name \o <<":">> \o tag.s ELSE name

----------------------------------------------------------------------------
\* What the callers pass and what the Gateway answers

Boom == <<"b","o","o","m">>
Late == <<"l","a","t","e">>

\* Build log lines: markers alone, with a trailing newline, after other
\* text, before other text, and plain text.
Lines ==
    { SuccessfullyBuilt \o <<"a">>,
      SuccessfullyBuilt \o <<"b","\n">>,
      Sha256 \o <<"a">>,
      <<"x"," ">> \o Sha256 \o <<"b">>,
      <<"x"," ">> \o SuccessfullyBuilt \o <<"a">>,
      Sha256 \o <<"a"," ","z">>,
      <<"x">> }

\* Decoded progress records of a build.
Chunks ==
    {[stream |-> l] : l \in Lines}
        \cup {[error |-> Boom],
              [error |-> Late, stream |-> SuccessfullyBuilt \o <<"a">>],
              [status |-> <<"s">>],
              EmptyDict}

SeqsUpTo(S, n) == UNION {[1..k -> S] : k \in 0..n}

\* client.api.build(**kwargs): a string, or a stream of records.
BuildResponses ==
    {PyStr(<<"a">>), PyStr(<<"b">>)}
        \cup {[t |-> "stream", l |-> s] : s \in SeqsUpTo(Chunks, MaxRecords)}

Names == {<<"n">>}
Tags == {PyNone, PyStr(<<>>), PyStr(<<"t">>)}
\* client.api.load_image(data): a lazy sequence of progress records.
LoadResponses ==
    {[t |-> "stream", l |-> s] :
        s \in SeqsUpTo({[stream |-> <<"L">>], [status |-> <<"s">>]}, MaxRecords)}

NativeResults == {PyStr(<<"o","k">>), PyList(<<PyStr(<<"d">>)>>)}

Op(name, args) == [name |-> name, args |-> args]

----------------------------------------------------------------------------
Init ==
    /\ pc = "idle"
    /\ op = Op("none", <<>>)
    /\ resp = PyNone
    /\ pos = 0
    /\ last_event = PyNone
    /\ image_id = PyNone
    /\ acc = <<>>
    /\ calls = <<>>
    /\ outcome = Pending
    /\ daemon \in SUBSET DaemonImages
    /\ nGet = 0
    /\ nInspect = 0
    /\ image = PyNone

CanStart == pc = "idle" /\ nGet < MaxGets

\* The number of inspect_image calls a get added to the log.
Fetches(g, log) == Len(g.calls) - Len(log)

\* build: the Gateway call; a string response is resolved at once.
BuildCall ==
    /\ UNCHANGED image
    /\ CanStart
    /\ \E r \in BuildResponses :
        LET log == <<Call("build", <<>>)>>
        IN  /\ op' = Op("build", <<>>)
            /\ resp' = r
            /\ pos' = 0
            /\ acc' = <<>>
            /\ IF r.t = "str"
               THEN LET g == build_string(daemon, log, r.s)
                    IN  /\ pc' = "done"
                        /\ calls' = g.calls
                        /\ outcome' = g.out
                        /\ nGet' = nGet + 1
                        /\ nInspect' = nInspect + Fetches(g, log)
                        /\ UNCHANGED <<last_event, image_id>>
               ELSE /\ pc' = "build_scan"
                    /\ calls' = log
                    /\ outcome' = Pending
                    /\ last_event' = PyNone
                    /\ image_id' = PyNone
                    /\ UNCHANGED <<nGet, nInspect>>
    /\ UNCHANGED daemon

\* build: one iteration of the loop over json_stream(resp).
BuildNext ==
    /\ UNCHANGED image
    /\ pc = "build_scan"
    /\ pos < Len(resp.l)
    /\ LET r == build_chunk(resp.l[pos + 1], last_event, image_id)
       IN  /\ pos' = pos + 1
           /\ last_event' = r.last_event
           /\ image_id' = r.image_id
           /\ outcome' = r.out
           /\ pc' = IF r.out.kind = "raise" THEN "done" ELSE "build_scan"
    /\ UNCHANGED <<op, resp, acc, calls, daemon, nGet, nInspect>>

\* build: the stream is exhausted.
BuildEnd ==
    /\ UNCHANGED image
    /\ pc = "build_scan"
    /\ pos = Len(resp.l)
    /\ LET g == build_finish(daemon, calls, last_event, image_id)
       IN  /\ calls' = g.calls
           /\ outcome' = g.out
           /\ nGet' = nGet + (IF Truthy(image_id) THEN 1 ELSE 0)
           /\ nInspect' = nInspect + Fetches(g, calls)
    /\ pc' = "done"
    /\ UNCHANGED <<op, resp, pos, last_event, image_id, acc, daemon>>

\* get called directly.
Get ==
    /\ UNCHANGED image
    /\ CanStart
    /\ \E name \in {<<"a">>, <<"n",":","t">>, <<"n">>} :
        LET g == get(daemon, <<>>, name)
        IN  /\ op' = Op("get", <<PyStr(name)>>)
            /\ calls' = g.calls
            /\ outcome' = g.out
            /\ nGet' = nGet + 1
            /\ nInspect' = nInspect + Fetches(g, <<>>)
    /\ resp' = PyNone
    /\ pc' = "done"
    /\ UNCHANGED <<pos, last_event, image_id, acc, daemon>>

\* list: the listing call, client.api.images(name, all, filters).
ListCall ==
    /\ UNCHANGED image
    /\ CanStart
    /\ \E listing \in SeqsUpTo({PyDict([Id |-> img.Id]) : img \in daemon}, MaxList) :
        resp' = PyList(listing)
    /\ op' = Op("list", <<PyNone, PyNone, PyNone>>)
    /\ calls' = <<Call("images", <<PyNone, PyNone, PyNone>>)>>
    /\ pc' = "list_get"
    /\ pos' = 0
    /\ acc' = <<>>
    /\ outcome' = Pending
    /\ UNCHANGED <<last_event, image_id, daemon, nGet, nInspect>>

\* list: the get of the next entry of the listing.
ListNext ==
    /\ UNCHANGED image
    /\ pc = "list_get"
    /\ pos < Len(resp.l)
    /\ LET g == get(daemon, calls, list_key(resp.l, pos + 1))
       IN  /\ calls' = g.calls
           /\ nGet' = nGet + 1
           /\ nInspect' = nInspect + Fetches(g, calls)
           /\ pos' = pos + 1
           /\ LET r == list_item(g, acc)
              IN  /\ outcome' = r.out
                  /\ acc' = r.acc
                  /\ pc' = IF r.over THEN "done" ELSE "list_get"
    /\ UNCHANGED <<op, resp, last_event, image_id, daemon>>

\* list: every entry is resolved; the Models are returned.
ListEnd ==
    /\ UNCHANGED image
    /\ pc = "list_get"
    /\ pos = Len(resp.l)
    /\ outcome' = Return(PyList(acc))
    /\ pc' = "done"
    /\ UNCHANGED <<op, resp, pos, last_event, image_id, acc, calls, daemon,
                   nGet, nInspect>>

\* pull: the Gateway call, client.api.pull(name, tag=tag); it may fail.
PullCall ==
    /\ UNCHANGED image
    /\ CanStart
    /\ \E name \in Names, tag \in Tags, ok \in BOOLEAN :
        /\ op' = Op("pull", <<PyStr(name), tag>>)
        /\ calls' = <<Call("pull", <<PyStr(name), tag>>)>>
        /\ pc' = IF ok THEN "pull_get" ELSE "done"
        /\ outcome' = IF ok THEN Pending ELSE Raise("APIError", PyNone)
    /\ resp' = PyNone
    /\ UNCHANGED <<pos, last_event, image_id, acc, daemon, nGet, nInspect>>

\* pull: the get that follows the Gateway call.
PullGet ==
    /\ UNCHANGED image
    /\ pc = "pull_get"
    /\ LET g == get(daemon, calls, pull_key(op.args[1].s, op.args[2]))
       IN  /\ calls' = g.calls
           /\ outcome' = g.out
           /\ nGet' = nGet + 1
           /\ nInspect' = nInspect + Fetches(g, calls)
    /\ pc' = "done"
    /\ UNCHANGED <<op, resp, pos, last_event, image_id, acc, daemon>>

\* A forwarder ran: r is what it did, ret what the Gateway answered.
Forwarded(name, args, r, ret) ==
    /\ UNCHANGED image
    /\ op' = Op(name, args)
    /\ resp' = ret
    /\ calls' = r.calls
    /\ outcome' = r.out
    /\ pc' = "done"
    /\ UNCHANGED <<pos, last_event, image_id, acc, nGet, nInspect>>

Push ==
    /\ pc = "idle"
    /\ \E name \in Names, tag \in Tags, ret \in NativeResults :
        Forwarded("push", <<PyStr(name), tag>>, push(PyStr(name), tag, ret), ret)
    /\ UNCHANGED daemon

\* remove: the daemon drops the image the reference resolves to.
Remove ==
    /\ pc = "idle"
    /\ \E name \in {<<"a">>, <<"b">>}, ret \in NativeResults :
        /\ Forwarded("remove", <<PyStr(name)>>, remove(<<PyStr(name)>>, ret), ret)
        /\ daemon' = {img \in daemon : ~Resolves(img, name)}

Search ==
    /\ pc = "idle"
    /\ \E term \in Names, ret \in NativeResults :
        Forwarded("search", <<PyStr(term)>>, search(<<PyStr(term)>>, ret), ret)
    /\ UNCHANGED daemon

Prune ==
    /\ pc = "idle"
    /\ \E filters \in {PyNone, PyDict([dangling |-> TRUE])}, ret \in NativeResults :
        Forwarded("prune", <<filters>>, prune(filters, ret), ret)
    /\ UNCHANGED daemon

\* load: the Gateway's sequence is handed to the caller.
Load ==
    /\ pc = "idle"
    /\ \E data \in {PyStr(<<"t","a","r">>)}, ret \in LoadResponses :
        Forwarded("load", <<data>>, load(data, ret), ret)
    /\ UNCHANGED daemon

\* The call is over: the caller has its outcome and the collection is ready
\* for the next call.
Returned ==
    /\ UNCHANGED image
    /\ pc = "done"
    /\ pc' = "idle"
    /\ op' = Op("none", <<>>)
    /\ resp' = PyNone
    /\ pos' = 0
    /\ last_event' = PyNone
    /\ image_id' = PyNone
    /\ acc' = <<>>
    /\ calls' = <<>>
    /\ outcome' = Pending
    /\ UNCHANGED <<daemon, nGet, nInspect>>

\* Another client of the daemon adds or removes an image at any moment.
DaemonChange ==
    /\ UNCHANGED image
    /\ \E img \in DaemonImages :
        daemon' = IF img \in daemon THEN daemon \ {img} ELSE daemon \cup {img}
    /\ UNCHANGED <<pc, op, resp, pos, last_event, image_id, acc, calls,
                   outcome, nGet, nInspect>>

Next ==
    \/ BuildCall
    \/ BuildNext
    \/ BuildEnd
    \/ Get
    \/ ListCall
    \/ ListNext
    \/ ListEnd
    \/ PullCall
    \/ PullGet
    \/ Push
    \/ Remove
    \/ Search
    \/ Prune
    \/ Load
    \/ Returned
    \/ DaemonChange

Spec == Init /\ [][Next]_vars

----------------------------------------------------------------------------
\* Properties of build

HasError(chunk) == "error" \in DOMAIN chunk
Captures(chunk) ==
    /\ ~HasError(chunk)
    /\ "stream" \in DOMAIN chunk
    /\ re_search(chunk["stream"]).t = "Match"

\* Position of the first record with an 'error' field, 0 when there is none.
FirstError(s) ==
    LET es == {k \in 1..Len(s) : HasError(s[k])}
    IN  IF es = {} THEN 0 ELSE SetMin(es)

\* Positions of the records whose 'stream' line yields an identifier.
Matching(s) == {k \in 1..Len(s) : Captures(s[k])}

Streamed == op.name = "build" /\ resp.t = "stream"
BuildDone == Streamed /\ pc = "done"

\* C1: when the first record with an 'error' field is at position k, build
\* never consumes a record after position k, and it ends by raising
\* BuildError with the error message of record k, having read exactly k
\* records.
C1_ErrorFailFast ==
    (Streamed /\ FirstError(resp.l) > 0) =>
        LET k == FirstError(resp.l)
        IN  /\ pos <= k
            /\ pc = "done" =>
                  /\ pos = k
                  /\ outcome = Raise("BuildError", PyStr(resp.l[k]["error"]))

\* A build failed on an error record that other records follow.
C1_Witness ==
    /\ BuildDone
    /\ FirstError(resp.l) > 0
    /\ FirstError(resp.l) < Len(resp.l)
    /\ outcome.exc = "BuildError"

\* C2: when an error-free stream has matching 'stream' lines, build calls
\* get, and the identifier it passes to get is the capture of the last
\* matching line in delivery order.
C2_LastMatchWins ==
    (BuildDone /\ FirstError(resp.l) = 0 /\ Matching(resp.l) # {}) =>
        LET k == SetMax(Matching(resp.l))
        IN  calls = <<Call("build", <<>>),
                      Call("inspect_image",
                           <<PyStr(re_search(resp.l[k]["stream"]).group2)>>)>>

\* A build resolved a stream whose two lines capture different identifiers.
C2_Witness ==
    /\ BuildDone
    /\ Len(calls) = 2
    /\ Matching(resp.l) = {1, 2}
    /\ re_search(resp.l[1]["stream"]) # re_search(resp.l[2]["stream"])

\* C3 (as claimed): a stream that ends without an error record and without
\* a capture makes build raise BuildError carrying the final record
\* consumed, or 'Unknown' when the stream had no record.
C3_CarriesFinalRecord ==
    (BuildDone /\ FirstError(resp.l) = 0 /\ Matching(resp.l) = {}) =>
        outcome = Raise("BuildError",
                        IF Len(resp.l) = 0
                        THEN PyStr(Unknown)
                        ELSE PyDict(resp.l[Len(resp.l)]))

\* C4 (as claimed): build ends by returning a Model or by raising
\* BuildError, and in no other way.
C4_ModelOrBuildError ==
    (op.name = "build" /\ pc = "done") =>
        \/ outcome.kind = "return" /\ outcome.val.t = "Image"
        \/ outcome.kind = "raise" /\ outcome.exc = "BuildError"

\* C4 (amended): build ends in one of three ways: it returns the Model that
\* its get resolved, it raises BuildError without having called get, or it
\* raises the NotFound of its get for the identifier get was called with.
C4_ModelBuildErrorOrNotFound ==
    (op.name = "build" /\ pc = "done") =>
        \/ /\ outcome.kind = "return"
           /\ outcome.val.t = "Image"
           /\ Len(calls) = 2
        \/ /\ outcome.kind = "raise"
           /\ outcome.exc = "BuildError"
           /\ Len(calls) = 1
        \/ /\ outcome.kind = "raise"
           /\ outcome.exc = "NotFound"
           /\ Len(calls) = 2
           /\ calls[2] = Call("inspect_image", <<outcome.val>>)

\* A streamed build captured an identifier and its get raised NotFound.
C4_Witness ==
    /\ BuildDone
    /\ Matching(resp.l) # {}
    /\ outcome.exc = "NotFound"

\* The line is a marker and nothing else: 'Successfully built <hex>' or
\* 'sha256:<hex>', with at most the newline that ends the line.
WholeLineMarker(line) ==
    \E p \in {SuccessfullyBuilt, Sha256} :
        LiteralAt(line, 1, p) /\ HexRunEnds(line, 1 + Len(p)) # {}

\* C5 (as claimed): a 'stream' line that is not, as a whole, a marker
\* captures nothing: reading such a record leaves image_id as it was.
C5_AnchoredBothEnds ==
    [][(/\ pc = "build_scan"
        /\ pos' = pos + 1
        /\ ~HasError(resp.l[pos + 1])
        /\ "stream" \in DOMAIN resp.l[pos + 1]
        /\ ~WholeLineMarker(resp.l[pos + 1]["stream"]))
       => image_id' = image_id]_vars

----------------------------------------------------------------------------
\* Properties of pull, list, get and the forwarders

\* The key the claim gives for pull(name, tag): 'name:tag' when a tag is
\* given (a non-empty tag), 'name' alone otherwise.
ClaimedPullKey(name, tag) ==
    IF tag = PyNone \/ tag = PyStr(<<>>)
    THEN name
    ELSE name \o <<":">> \o tag.s

\* C6: pull makes the Gateway pull call for (name, tag) first and, once that
\* call has succeeded, exactly one get, for 'name:tag' or 'name'; nothing
\* else reaches the Gateway, and the Model pull returns is the one that get
\* resolved for that key.
C6_PullThenGet ==
    op.name = "pull" =>
        LET pullCall == Call("pull", op.args)
            key == ClaimedPullKey(op.args[1].s, op.args[2])
        IN  /\ pc = "pull_get" => calls = <<pullCall>>
            /\ (pc = "done" /\ outcome.exc # "APIError") =>
                  calls = <<pullCall, Call("inspect_image", <<PyStr(key)>>)>>
            /\ (pc = "done" /\ outcome.exc = "APIError") => calls = <<pullCall>>
            /\ (pc = "done" /\ outcome.kind = "return") =>
                  /\ outcome.val.t = "Image"
                  /\ Resolves(outcome.val.attrs, key)
                  /\ outcome.val.id = outcome.val.attrs.Id

\* A pull with a tag returned the Model of 'name:tag'.
C6_Witness ==
    /\ op.name = "pull"
    /\ pc = "done"
    /\ op.args[2] = PyStr(<<"t">>)
    /\ outcome.kind = "return"

\* C7: when the get that follows a successful Gateway pull raises NotFound,
\* pull ends by raising that NotFound.
C7_PullPropagatesNotFound ==
    [][(/\ pc = "pull_get"
        /\ pc' = "done"
        /\ inspect_image(daemon, ClaimedPullKey(op.args[1].s, op.args[2])).kind
               = "raise")
       => outcome' = inspect_image(daemon,
                                   ClaimedPullKey(op.args[1].s, op.args[2]))]_vars

\* A pull ended with the NotFound of its get.
C7_Witness ==
    /\ op.name = "pull"
    /\ pc = "done"
    /\ Len(calls) = 2
    /\ outcome.exc = "NotFound"

\* C8: list makes the listing call and then one get per entry, keyed by the
\* entry's Id, in listing order; when it returns, it has fetched all n
\* entries and returns n Models in the order of the listing.
C8_ListOneGetPerEntry ==
    op.name = "list" =>
        /\ calls = <<Call("images", op.args)>> \o
                   [k \in 1..pos |->
                        Call("inspect_image", <<PyStr(resp.l[k].d.Id)>>)]
        /\ (pc = "done" /\ outcome.kind = "return") =>
              /\ pos = Len(resp.l)
              /\ Len(outcome.val.l) = Len(resp.l)
              /\ \A k \in 1..Len(resp.l) :
                    /\ outcome.val.l[k].t = "Image"
                    /\ outcome.val.l[k].id = resp.l[k].d.Id

\* A list returned the Models of a listing of two different entries.
C8_Witness ==
    /\ op.name = "list"
    /\ pc = "done"
    /\ outcome.kind = "return"
    /\ Len(resp.l) = 2
    /\ resp.l[1] # resp.l[2]

\* C9: the Gateway has served as many single-entity fetches as get has been
\* invoked, directly or by build, pull and list.
C9_NoCache ==
    nInspect = nGet

\* A list fetched the same identifier twice.
C9_Witness ==
    /\ op.name = "list"
    /\ pos = 2
    /\ resp.l[1] = resp.l[2]
    /\ nGet >= 2

\* The Gateway method each forwarder calls.
ForwardedApi ==
    [push |-> "push", remove |-> "remove_image",
     search |-> "search", prune |-> "prune_images"]

\* C10 (as claimed): push, remove, search and prune make one Gateway call
\* with the caller's arguments and return the Gateway's result unchanged.
C10_ForwardsResult ==
    op.name \in {"push", "remove", "search", "prune"} =>
        /\ calls = <<Call(ForwardedApi[op.name], op.args)>>
        /\ outcome = Return(resp)

----------------------------------------------------------------------------
\* More properties of build

\* C11: when the Gateway's build call returns a string, build reads no
\* record, calls get exactly once, with that string, and ends as that get
\* ends: it returns the Model the get resolved.
C11_StringResponseIsId ==
    (op.name = "build" /\ resp.t = "str" /\ pc = "done") =>
        /\ calls = <<Call("build", <<>>), Call("inspect_image", <<resp>>)>>
        /\ pos = 0
        /\ last_event = PyNone
        /\ image_id = PyNone
        /\ outcome.kind = "return" =>
              /\ outcome.val.t = "Image"
              /\ Resolves(outcome.val.attrs, resp.s)
        /\ outcome.kind = "raise" => outcome = Raise("NotFound", resp)

\* A build whose response was a string returned the Model of that string.
C11_Witness ==
    /\ op.name = "build"
    /\ resp.t = "str"
    /\ pc = "done"
    /\ outcome.kind = "return"

\* C17: a streamed build calls get at most once, and only when it has read
\* the whole stream, found no error record and captured an identifier; when
\* it raises BuildError (an error record, also after a capture, or no
\* capture at the end) it has not called get and its BuildError does not
\* carry the captured identifier.
C17_GetOnlyAfterCleanScan ==
    Streamed =>
        /\ Len(calls) <= 2
        /\ calls[1] = Call("build", <<>>)
        /\ Len(calls) = 2 =>
              /\ pc = "done"
              /\ calls[2].api = "inspect_image"
              /\ pos = Len(resp.l)
              /\ FirstError(resp.l) = 0
              /\ image_id # PyNone
        /\ (pc = "done" /\ (FirstError(resp.l) # 0 \/ image_id = PyNone)) =>
              /\ Len(calls) = 1
              /\ outcome.kind = "raise"
              /\ outcome.exc = "BuildError"
              /\ outcome.val # image_id

\* A build failed on an error record that came after a capture.
C17_Witness ==
    /\ BuildDone
    /\ image_id # PyNone
    /\ FirstError(resp.l) = 2
    /\ outcome.exc = "BuildError"

----------------------------------------------------------------------------
\* Properties of load and of list against a changing daemon

\* C16: load makes one Gateway load call with the payload and returns the
\* Gateway's sequence of progress records as it is: no record is read from
\* it, no get is made and no Model is built.
C16_LoadPassesThrough ==
    op.name = "load" =>
        /\ calls = <<Call("load_image", op.args)>>
        /\ resp.t = "stream"
        /\ outcome = Return(resp)
        /\ pos = 0
        /\ acc = <<>>

\* A load returned a sequence that holds records.
C16_Witness ==
    /\ op.name = "load"
    /\ pc = "done"
    /\ Len(resp.l) > 0

\* C19: when the entry list is about to fetch no longer resolves in the
\* daemon, that get ends list with NotFound for that entry: the Models
\* collected so far are not returned, and no entry after it is fetched.
C19_ListFailsOnVanishedEntry ==
    [][/\ (/\ pc = "list_get"
           /\ pos' = pos + 1
           /\ inspect_image(daemon, resp.l[pos + 1].d.Id).kind = "raise")
          => /\ pc' = "done"
             /\ outcome' = Raise("NotFound", PyStr(resp.l[pos + 1].d.Id))
             /\ Len(calls') = 1 + pos'
       /\ (pc = "done" /\ op.name = "list" /\ pc' = "done")
          => (calls' = calls /\ outcome' = outcome)]_vars

\* A list had collected a Model when a later entry, not its last, had
\* vanished: it ended with NotFound.
C19_Witness ==
    /\ op.name = "list"
    /\ pc = "done"
    /\ outcome.exc = "NotFound"
    /\ acc # <<>>
    /\ pos < Len(resp.l)

----------------------------------------------------------------------------
\* Image: the accessors and history of one Model.  self is the Model
\* ([t |-> "Image", id, attrs]), log the Gateway's record of the calls made;
\* each operator gives the outcome, the log and the Model afterwards.

MaxLayers == 2

\* s[:n]
Slice(s, n) == SubSeq(s, 1, IF Len(s) < n THEN Len(s) ELSE n)

\* d.get(key): None when the key is missing.
DictGet(d, key) == IF key \in DOMAIN d THEN d[key] ELSE PyNone

\* labels: self.attrs['Config'].get('Labels') or {}
labels(self, log) ==
    IF "Config" \notin DOMAIN self.attrs
    THEN [out |-> Raise("KeyError", PyStr(<<"C","o","n","f","i","g">>)),
          calls |-> log, self |-> self]
    ELSE LET result == DictGet(self.attrs["Config"].d, "Labels")
         IN  [out |-> Return(PyOr(result, PyDict(EmptyDict))),
              calls |-> log, self |-> self]

\* short_id that cuts every identifier to 10 characters.
short_id_noprefix(self, log) ==
    [out |-> Return(PyStr(Slice(self.id, 10))), calls |-> log, self |-> self]

\* short_id that fetches the snapshot again before answering.
short_id_reload(self, log) ==
    [out |-> Return(PyStr(IF LiteralAt(self.id, 1, Sha256)
                          THEN Slice(self.id, 17)
                          ELSE Slice(self.id, 10))),
     calls |-> Append(log, Call("inspect_image", <<PyStr(self.id)>>)),
     self |-> self]

\* short_id: self.id[:17] if self.id.startswith('sha256:') else self.id[:10]
short_id(self, log) ==
    [out |-> Return(PyStr(IF LiteralAt(self.id, 1, Sha256)
                          THEN Slice(self.id, 17)
                          ELSE Slice(self.id, 10))),
     calls |-> log, self |-> self]

\* tags that keeps the '<none>:<none>' entries.
tags_nofilter(self, log) ==
    LET t == DictGet(self.attrs, "RepoTags")
        l == IF t = PyNone THEN <<>> ELSE t.l
    IN  [out |-> Return(PyList(l)), calls |-> log, self |-> self]

\* tags: the entries of attrs.get('RepoTags'), [] for None, without
\* '<none>:<none>'.
tags(self, log) ==
    LET t == DictGet(self.attrs, "RepoTags")
        l == IF t = PyNone THEN <<>> ELSE t.l
    IN  [out |-> Return(PyList(SelectSeq(l, LAMBDA tag : tag # NoTag))),
         calls |-> log, self |-> self]

\* collection.prepare_model(history_entry, model=ImageHistory)
prepare_history(entry) == [t |-> "ImageHistory", attrs |-> entry]

\* history that hands the layers back oldest first.
history_rev(self, log, layers) ==
    [out |-> Return([t |-> "tuple",
                     l |-> [k \in 1..Len(layers) |->
                               prepare_history(layers[Len(layers) - k + 1])]]),
     calls |-> Append(log, Call("history", <<PyStr(self.id)>>)),
     self |-> self]

\* history: one ImageHistory per record of client.api.history(self.id), as
\* a tuple.  layers is what the Gateway answers.
history(self, log, layers) ==
    [out |-> Return([t |-> "tuple",
                     l |-> [k \in 1..Len(layers) |-> prepare_history(layers[k])]]),
     calls |-> Append(log, Call("history", <<PyStr(self.id)>>)),
     self |-> self]

\* The Models a caller may hold.
Hex12 == <<"0","1","2","3","4","5","6","7","8","9","a","b">>
ImageIds ==
    { Sha256 \o Hex12,
      Sha256 \o SubSeq(Hex12, 1, 10),
      Sha256 \o <<"a","b","c">>,
      Hex12,
      SubSeq(Hex12, 1, 10),
      <<"a","b","c">>,
      <<"s","h","a","2","5","6">> \o Hex12 }

TagX == <<"x",":","l">>
TagY == <<"y",":","1">>
RepoTagsParts ==
    {EmptyDict}
        \cup {"RepoTags" :> v :
                v \in {PyNone} \cup
                      {PyList(l) : l \in {<<>>, <<NoTag>>, <<TagX>>,
                                          <<TagY, NoTag, TagX>>,
                                          <<NoTag, TagX, NoTag>>}}}

ConfigParts ==
    {EmptyDict}
        \cup {"Config" :> PyDict(c) :
                c \in {EmptyDict}
                      \cup {"Labels" :> v :
                              v \in {PyNone, PyDict(EmptyDict),
                                     PyDict("k" :> <<"v">>)}}}

Images ==
    {[t |-> "Image", id |-> i, attrs |-> ("Id" :> i) @@ rt @@ cf] :
        i \in ImageIds, rt \in RepoTagsParts, cf \in ConfigParts}

\* Layer records of client.api.history; untagged layers share the Id
\* '<missing>'.
Layers ==
    {[Id |-> <<"l","1">>], [Id |-> <<"l","2">>],
     [Id |-> <<"<","m","i","s","s","i","n","g",">">>]}

InitImage ==
    /\ pc = "idle"
    /\ op = Op("none", <<>>)
    /\ resp = PyNone
    /\ pos = 0
    /\ last_event = PyNone
    /\ image_id = PyNone
    /\ acc = <<>>
    /\ calls = <<>>
    /\ outcome = Pending
    /\ daemon = {}
    /\ nGet = 0
    /\ nInspect = 0
    /\ image \in Images

\* A property or method of image ran: r is what it did.
ImageOp(name, r) ==
    /\ pc = "idle"
    /\ pc' = "done"
    /\ op' = Op(name, <<>>)
    /\ outcome' = r.out
    /\ calls' = r.calls
    /\ image' = r.self
    /\ UNCHANGED <<pos, last_event, image_id, acc, daemon, nGet, nInspect>>

ReadLabels == ImageOp("labels", labels(image, calls)) /\ UNCHANGED resp

ReadShortId == ImageOp("short_id", short_id(image, calls)) /\ UNCHANGED resp

ReadTags == ImageOp("tags", tags(image, calls)) /\ UNCHANGED resp

History ==
    \E layers \in SeqsUpTo(Layers, MaxLayers) :
        /\ ImageOp("history", history(image, calls, layers))
        /\ resp' = PyList(layers)

NextImage ==
    \/ ReadLabels
    \/ ReadShortId
    \/ ReadTags
    \/ History
    \/ Returned

SpecImage == InitImage /\ [][NextImage]_vars

----------------------------------------------------------------------------
\* Properties of Image

ImageDone(name) == pc = "done" /\ op.name = name

\* The RepoTags of the snapshot as a sequence: empty when absent or null.
RepoTagsOf(img) ==
    IF "RepoTags" \notin DOMAIN img.attrs \/ img.attrs["RepoTags"] = PyNone
    THEN <<>>
    ELSE img.attrs["RepoTags"].l

\* The k-th position of l, in order, that does not hold '<none>:<none>'.
KeptAt(l, k) ==
    LET kept == {i \in 1..Len(l) : l[i] # NoTag}
    IN  CHOOSE i \in kept : Cardinality({j \in kept : j < i}) = k - 1

\* C12: tags returns the entries of RepoTags other than '<none>:<none>', in
\* their order; it returns an empty list when RepoTags holds only the
\* sentinel, is empty, is null or is absent.
C12_TagsWithoutSentinel ==
    ImageDone("tags") =>
        LET l == RepoTagsOf(image)
            n == Cardinality({i \in 1..Len(l) : l[i] # NoTag})
        IN  /\ outcome.kind = "return"
            /\ outcome.val.t = "list"
            /\ Len(outcome.val.l) = n
            /\ \A k \in 1..n : outcome.val.l[k] = l[KeptAt(l, k)]

\* tags was read on a snapshot that holds the sentinel between two tags.
C12_Witness ==
    /\ ImageDone("tags")
    /\ RepoTagsOf(image) = <<TagY, NoTag, TagX>>

\* C13 (as claimed): for an identifier that begins with 'sha256:' short_id
\* keeps the prefix and has exactly 17 characters; for any other it is the
\* first 10 characters, or the whole identifier when that is shorter.
C13_ShortIdExactly17 ==
    ImageDone("short_id") =>
        /\ outcome.kind = "return"
        /\ IF LiteralAt(image.id, 1, Sha256)
           THEN /\ Len(outcome.val.s) = 17
                /\ LiteralAt(outcome.val.s, 1, Sha256)
           ELSE outcome.val.s = SubSeq(image.id, 1, 10)
                    \/ (Len(image.id) < 10 /\ outcome.val.s = image.id)

\* C13 (amended): for an identifier that begins with 'sha256:' short_id keeps
\* the prefix and is the first 17 characters of the identifier, the whole
\* identifier when it has fewer than 17; for any other identifier it is the
\* first 10 characters, or the whole identifier when that is shorter.
C13_ShortIdAtMost17 ==
    ImageDone("short_id") =>
        LET n == IF LiteralAt(image.id, 1, Sha256) THEN 17 ELSE 10
            r == outcome.val.s
        IN  /\ outcome.kind = "return"
            /\ Len(r) = (IF Len(image.id) < n THEN Len(image.id) ELSE n)
            /\ \A k \in 1..Len(r) : r[k] = image.id[k]
            /\ LiteralAt(image.id, 1, Sha256) => LiteralAt(r, 1, Sha256)

\* short_id was read on a 'sha256:' identifier longer than 17 characters.
C13_Witness ==
    /\ ImageDone("short_id")
    /\ LiteralAt(image.id, 1, Sha256)
    /\ Len(image.id) > 17

\* C14: reading labels, tags or short_id makes no Gateway call and leaves
\* the Model, its id and its attrs, as it was.
C14_AccessorsArePure ==
    [][(pc = "idle" /\ pc' = "done" /\ op'.name \in {"labels", "tags", "short_id"})
       => (calls' = calls /\ image' = image)]_vars

\* labels was read on a Model whose snapshot holds a label, and nothing
\* reached the Gateway.
C14_Witness ==
    /\ ImageDone("labels")
    /\ outcome = Return(PyDict("k" :> <<"v">>))
    /\ calls = <<>>

\* C15: history makes one Gateway history call, for the Model's id, and
\* returns a tuple with one ImageHistory per layer record, in the order of
\* the Gateway's answer.
C15_HistoryInGatewayOrder ==
    ImageDone("history") =>
        /\ calls = <<Call("history", <<PyStr(image.id)>>)>>
        /\ outcome.kind = "return"
        /\ outcome.val.t = "tuple"
        /\ Len(outcome.val.l) = Len(resp.l)
        /\ \A k \in 1..Len(resp.l) :
              /\ outcome.val.l[k].t = "ImageHistory"
              /\ outcome.val.l[k].attrs = resp.l[k]

\* history returned the entries of two different layers.
C15_Witness ==
    /\ ImageDone("history")
    /\ Len(resp.l) = 2
    /\ resp.l[1] # resp.l[2]

\* The label mapping held by the snapshot, None when there is none.
LabelsOf(img) ==
    IF "Config" \notin DOMAIN img.attrs
    THEN PyNone
    ELSE DictGet(img.attrs["Config"].d, "Labels")

\* C18 (as claimed): labels never fails; it returns the snapshot's label
\* mapping when there is one and an empty mapping when Labels is null, when
\* Config has no Labels, and when the snapshot has no Config.
C18_LabelsNeverFail ==
    ImageDone("labels") =>
        /\ outcome.kind = "return"
        /\ outcome.val = (IF LabelsOf(image) = PyNone
                          THEN PyDict(EmptyDict)
                          ELSE LabelsOf(image))

====
